---- MODULE Spec2Model ----
(***************************************************************************)
(* The authenticated inventory API of app/: POST /token exchanges          *)
(* credentials for a signed, time-limited bearer token; GET /inv returns   *)
(* the inventory rows behind the auth gate get_current_user.               *)
(*                                                                         *)
(* Spec      every request is one atomic step (the store answers); the     *)
(*           response of the request handled in the latest step is kept in *)
(*           resp, and cleared by every step that is not a request.        *)
(* SpecConc  requests are handled by concurrent workers, one dependency    *)
(*           or handler body per step, with store faults; it is about the  *)
(*           scoped session of get_db.                                     *)
(***************************************************************************)
EXTENDS Integers, FiniteSets, Sequences, TLC

VARIABLES
    users,      \* rows of table "user"
    inv,        \* rows of table "inv"
    now,        \* the clock, in units of the token TTL's unit
    held,       \* the client's token: access_token of its last 200 from /token
    resp,       \* the response of the request handled in the latest step
    reqs,       \* per worker, the request it is handling
    open        \* the store sessions that are open

vars == <<users, inv, now, held, resp, reqs, open>>

\* ------------------------------------------------------------------ bounds
MaxTime == 3

\* ------------------------------------------------------------ configuration
SECRET_KEY == "server-secret"
ALGORITHM == "HS256"
TTL == 1

\* ------------------------------------------------------------------ values
None == "None"
Usernames == {"alice", "bob"}
Passwords == {"pw1", "pw2"}
Salts == {"s1", "s2"}
ItemNames == {"Widget", "Gadget"}
OtherKey == "other-secret"
Workers == {"w1", "w2"}
SessionIds == {"s1", "s2"}

Ok(v) == [ok |-> TRUE, val |-> v]
Raise(e) == [ok |-> FALSE, val |-> e]

\* ------------------------------------------------------------------ store
UserId(u) == IF u = "alice" THEN 1 ELSE 2

User(u, h) == [id |-> UserId(u), username |-> u, hashed_password |-> h]

Inv(n) ==
    IF n = "Widget" THEN [id |-> 1, item_name |-> n, quantity |-> 100]
    ELSE [id |-> 2, item_name |-> n, quantity |-> 50]

\* the filter on the username dropped
query_user_unfiltered(table, username) == table

\* db.query(models.User).filter(models.User.username == username)
query_user(table, username) == {r \in table : r.username = username}

\* .first() of a query that matched something
first(found) == CHOOSE r \in found : TRUE

\* --------------------------------------------------------- password hasher
get_password_hash(plain, salt) == [salt |-> salt, digest |-> <<salt, plain>>]

verify_password(plain, hashed) == hashed.digest = <<hashed.salt, plain>>

\* ------------------------------------------------------------------ tokens
Sign(key, alg, payload) == [key |-> key, alg |-> alg, payload |-> payload]

jwt_encode(payload, key, alg) ==
    [header |-> [alg |-> alg], payload |-> payload, sig |-> Sign(key, alg, payload)]

create_access_token(username, t) ==
    jwt_encode([sub |-> username, exp |-> t + TTL],
               SECRET_KEY, ALGORITHM)

JWTError == Raise("JWTError")

\* the expiry not validated
jwt_decode_noexp(token, key, algorithms, t) ==
    IF "header" \notin DOMAIN token THEN JWTError
    ELSE IF token.header.alg \notin algorithms THEN JWTError
    ELSE IF token.sig # Sign(key, token.header.alg, token.payload) THEN JWTError
    ELSE Ok(token.payload)

\* the signature not verified
jwt_decode_nosig(token, key, algorithms, t) ==
    IF "header" \notin DOMAIN token THEN JWTError
    ELSE IF token.header.alg \notin algorithms THEN JWTError
    ELSE IF "exp" \in DOMAIN token.payload /\ token.payload.exp < t THEN JWTError
    ELSE Ok(token.payload)

\* jose.jwt.decode(token, key, algorithms=[...]) at time t
jwt_decode(token, key, algorithms, t) ==
    IF "header" \notin DOMAIN token THEN JWTError
    ELSE IF token.header.alg \notin algorithms THEN JWTError
    ELSE IF token.sig # Sign(key, token.header.alg, token.payload) THEN JWTError
    ELSE IF "exp" \in DOMAIN token.payload /\ token.payload.exp < t THEN JWTError
    ELSE Ok(token.payload)

payload_get(payload, k) == IF k \in DOMAIN payload THEN payload[k] ELSE None

\* ---------------------------------------------------------------- auth gate
HTTPException(status_code, detail, headers) ==
    [status_code |-> status_code, detail |-> detail, headers |-> headers]

Challenge == "WWW-Authenticate" :> "Bearer"

lower(s) == IF s = "Bearer" THEN "bearer" ELSE IF s = "Basic" THEN "basic" ELSE s

\* OAuth2PasswordBearer(tokenUrl="token") called on the request's headers
oauth2_scheme(headers) ==
    IF "Authorization" \notin DOMAIN headers
       \/ lower(headers["Authorization"].scheme) # "bearer"
    THEN Raise(HTTPException(401, "Not authenticated", Challenge))
    ELSE Ok(headers["Authorization"].param)

credentials_exception ==
    HTTPException(401, "Could not validate credentials", Challenge)

\* the subject returned as schemas.TokenData, the store not consulted
get_current_user_tokendata(token, table, t) ==
    LET decoded == jwt_decode(token, SECRET_KEY, {ALGORITHM}, t)
    IN  IF ~decoded.ok THEN Raise(credentials_exception)
        ELSE LET username == payload_get(decoded.val, "sub")
             IN  IF username = None THEN Raise(credentials_exception)
                 ELSE Ok([username |-> username])

\* an unknown subject reported as such
get_current_user_leaky(token, table, t) ==
    LET decoded == jwt_decode(token, SECRET_KEY, {ALGORITHM}, t)
    IN  IF ~decoded.ok THEN Raise(credentials_exception)
        ELSE LET username == payload_get(decoded.val, "sub")
             IN  IF username = None THEN Raise(credentials_exception)
                 ELSE LET found == query_user(table, username)
                      IN  IF found = {}
                          THEN Raise(HTTPException(401, "User not found", Challenge))
                          ELSE Ok(first(found))

get_current_user(token, table, t) ==
    LET decoded == jwt_decode(token, SECRET_KEY, {ALGORITHM}, t)
    IN  IF ~decoded.ok THEN Raise(credentials_exception)
        ELSE LET username == payload_get(decoded.val, "sub")
             IN  IF username = None THEN Raise(credentials_exception)
                 ELSE LET found == query_user(table, username)
                      IN  IF found = {} THEN Raise(credentials_exception)
                          ELSE Ok(first(found))

\* schemas.InvItem, from_attributes
InvItem(row) ==
    [id |-> row.id, item_name |-> row.item_name, quantity |-> row.quantity]

\* the rows filtered by the authenticated user
read_inv_owned(table, current_user) ==
    {InvItem(row) : row \in {r \in table : r.id = current_user.id}}

\* db.query(models.Inv).all(), serialised by response_model=list[schemas.InvItem]
read_inv(table, current_user) == {InvItem(row) : row \in table}

\* ---------------------------------------------------------------- responses
NotRun == Raise("not run")

Response(kind, request, status, headers, body, gate) ==
    [kind |-> kind, request |-> request, status |-> status,
     headers |-> headers, body |-> body, gate |-> gate]

NoResp == Response("none", <<>>, 0, <<>>, <<>>, NotRun)

ErrorResponse(kind, request, exc, gate) ==
    Response(kind, request, exc.status_code, exc.headers,
             [detail |-> exc.detail], gate)

\* read_inv without Depends(get_current_user)
GetInvResponse_ungated(request, userTable, invTable, t) ==
    Response("inv", request, 200, <<>>, read_inv(invTable, None), NotRun)

\* GET /inv on a store that answers
GetInvResponse(request, userTable, invTable, t) ==
    LET token == oauth2_scheme(request.headers)
    IN  IF ~token.ok THEN ErrorResponse("inv", request, token.val, NotRun)
        ELSE LET current_user == get_current_user(token.val, userTable, t)
             IN  IF ~current_user.ok
                 THEN ErrorResponse("inv", request, current_user.val, current_user)
                 ELSE Response("inv", request, 200, <<>>,
                               read_inv(invTable, current_user.val), current_user)

\* POST /token on a store that answers
invalid_credentials ==
    HTTPException(401, "Incorrect username or password", Challenge)

\* the password not verified
authenticate_user_nopw(table, username, password) ==
    {r \in table : r.username = username} # {}

authenticate_user(table, username, password) ==
    LET found == {r \in table : r.username = username}
    IN  IF found = {} THEN FALSE
        ELSE verify_password(password, first(found).hashed_password)

PostTokenResponse(request, userTable, t) ==
    IF ~authenticate_user(userTable, request.form.username, request.form.password)
    THEN ErrorResponse("token", request, invalid_credentials, NotRun)
    ELSE Response("token", request, 200, <<>>,
                  [access_token |-> create_access_token(request.form.username, t),
                   token_type |-> "bearer"], NotRun)

\* ------------------------------------------------------------------ inputs
Exps == TTL .. (MaxTime + TTL)

FullPayloads == {[sub |-> u, exp |-> e] : u \in Usernames, e \in Exps}

Payloads ==
    FullPayloads \cup {[exp |-> e] : e \in Exps} \cup {[sub |-> u] : u \in Usernames}

\* what the server's own secret signs, and what any other secret signs
Signed(key) == {jwt_encode(p, key, ALGORITHM) : p \in Payloads}

\* an issued token altered in transit: its subject, its expiry, a signature
\* byte, or its algorithm header with the signature dropped
Tampered(tok) ==
    {[tok EXCEPT !.payload.sub = u] : u \in Usernames \ {tok.payload.sub}}
    \cup {[tok EXCEPT !.payload.exp = MaxTime + TTL]}
    \cup {[tok EXCEPT !.sig.key = "corrupt"]}
    \cup {[tok EXCEPT !.header.alg = "none", !.sig = Sign("", "none", tok.payload)]}

Malformed == [raw |-> "not-a-jwt"]

Tokens ==
    Signed(SECRET_KEY) \cup Signed(OtherKey) \cup {Malformed}
    \cup UNION {Tampered(jwt_encode(p, SECRET_KEY, ALGORITHM)) : p \in FullPayloads}

Bearer(tok) == "Authorization" :> [scheme |-> "Bearer", param |-> tok]

Headers ==
    {<<>>} \cup {Bearer(tok) : tok \in Tokens}
    \cup {"Authorization" :> [scheme |-> "Basic", param |-> Malformed]}

GetInvRequest(headers) == [method |-> "GET", path |-> "/inv", headers |-> headers]

PostTokenRequest(username, password) ==
    [method |-> "POST", path |-> "/token",
     form |-> [username |-> username, password |-> password]]

\* ------------------------------------------------------------------ Spec
Work(pc, request, db, val, out) ==
    [pc |-> pc, request |-> request, db |-> db, val |-> val, out |-> out]

Idle == Work("idle", <<>>, None, <<>>, NoResp)

Init ==
    /\ users = {}
    /\ inv = {}
    /\ now = 0
    /\ held = Malformed
    /\ resp = NoResp
    /\ reqs = [w \in Workers |-> Idle]
    /\ open = {}

\* registration / seeding of a user (its username is unique)
AddUser(u, p, salt) ==
    /\ resp = NoResp
    /\ \A r \in users : r.username # u
    /\ users' = users \cup {User(u, get_password_hash(p, salt))}
    /\ UNCHANGED <<inv, now, held, resp, reqs, open>>

\* external administration deletes a user
RemoveUser(u) ==
    /\ resp = NoResp
    /\ \E r \in users : r.username = u
    /\ users' = {r \in users : r.username # u}
    /\ UNCHANGED <<inv, now, held, resp, reqs, open>>

AddItem(n) ==
    /\ resp = NoResp
    /\ Inv(n) \notin inv
    /\ inv' = inv \cup {Inv(n)}
    /\ UNCHANGED <<users, now, held, resp, reqs, open>>

RemoveItem(n) ==
    /\ resp = NoResp
    /\ Inv(n) \in inv
    /\ inv' = inv \ {Inv(n)}
    /\ UNCHANGED <<users, now, held, resp, reqs, open>>

Tick ==
    /\ resp = NoResp
    /\ now < MaxTime
    /\ now' = now + 1
    /\ UNCHANGED <<users, inv, held, resp, reqs, open>>

\* POST /token
PostToken(username, password) ==
    /\ resp = NoResp
    /\ resp' = PostTokenResponse(PostTokenRequest(username, password), users, now)
    /\ UNCHANGED <<users, inv, now, held, reqs, open>>

\* a read that takes the rows it returns out of the store
GetInv_consuming(headers) ==
    /\ resp = NoResp
    /\ resp' = GetInvResponse(GetInvRequest(headers), users, inv, now)
    /\ inv' = IF resp'.status = 200 THEN {} ELSE inv
    /\ UNCHANGED <<users, now, held, reqs, open>>

\* GET /inv
GetInv(headers) ==
    /\ resp = NoResp
    /\ resp' = GetInvResponse(GetInvRequest(headers), users, inv, now)
    /\ UNCHANGED <<users, inv, now, held, reqs, open>>

\* the client receives the response, and keeps the access_token of a 200
\* from /token (test_inv: token_response.json()["access_token"])
Deliver ==
    /\ resp # NoResp
    /\ held' = IF resp.kind = "token" /\ resp.status = 200
               THEN resp.body.access_token ELSE held
    /\ resp' = NoResp
    /\ UNCHANGED <<users, inv, now, reqs, open>>

Next ==
    \/ \E u \in Usernames, p \in Passwords, salt \in Salts : AddUser(u, p, salt)
    \/ \E u \in Usernames : RemoveUser(u)
    \/ \E n \in ItemNames : AddItem(n)
    \/ \E n \in ItemNames : RemoveItem(n)
    \/ Tick
    \/ \E u \in Usernames, p \in Passwords : PostToken(u, p)
    \/ \E h \in Headers : GetInv(h)
    \/ Deliver

Spec == Init /\ [][Next]_vars

\* ---------------------------------------------------------------- SpecConc
\* database.SessionLocal(): a new session object
SessionLocal(opened) == CHOOSE sid \in SessionIds : sid \notin opened

InternalServerError == HTTPException(500, "Internal Server Error", <<>>)

\* the store seeded as the tests seed it, the clock past the first expiry,
\* the client holding a fresh token
InitConc ==
    /\ users = {User("alice", get_password_hash("pw1", "s1"))}
    /\ inv = {Inv(n) : n \in ItemNames}
    /\ now = TTL + 1
    /\ held = create_access_token("alice", now)
    /\ resp = NoResp
    /\ reqs = [w \in Workers |-> Idle]
    /\ open = {}

ConcHeaders ==
    {<<>>, Bearer(held), Bearer(create_access_token("alice", 0)),
     Bearer(create_access_token("bob", now))}

ConcRequests ==
    {GetInvRequest(h) : h \in ConcHeaders}
    \cup {PostTokenRequest("alice", p) : p \in Passwords}

\* a worker takes a request
Accept(w, request) ==
    /\ reqs[w].pc = "idle"
    /\ reqs' = [reqs EXCEPT ![w] = Work("get_db", request, None, <<>>, NoResp)]
    /\ UNCHANGED <<users, inv, now, held, resp, open>>

\* get_db up to its yield: db = database.SessionLocal()
GetDb(w) ==
    /\ reqs[w].pc = "get_db"
    /\ Cardinality(open) < Cardinality(SessionIds)
    /\ LET db == SessionLocal(open)
       IN  /\ open' = open \cup {db}
           /\ reqs' = [reqs EXCEPT ![w].db = db,
                                   ![w].pc = IF reqs[w].request.path = "/inv"
                                             THEN "oauth2_scheme" ELSE "login"]
    /\ UNCHANGED <<users, inv, now, held, resp>>

\* Depends(oauth2_scheme)
Scheme(w) ==
    /\ reqs[w].pc = "oauth2_scheme"
    /\ LET token == oauth2_scheme(reqs[w].request.headers)
       IN  reqs' = [reqs EXCEPT ![w] =
               IF token.ok
               THEN Work("get_current_user", @.request, @.db, token.val, NoResp)
               ELSE Work("finally", @.request, @.db, <<>>,
                         ErrorResponse("inv", @.request, token.val, NotRun))]
    /\ UNCHANGED <<users, inv, now, held, resp, open>>

\* the gate gets as far as its store query
ReachesQuery(token, t) ==
    LET decoded == jwt_decode(token, SECRET_KEY, {ALGORITHM}, t)
    IN  decoded.ok /\ payload_get(decoded.val, "sub") # None

\* Depends(get_current_user); its query may raise a store fault
Gate(w, fault) ==
    /\ reqs[w].pc = "get_current_user"
    /\ fault => ReachesQuery(reqs[w].val, now)
    /\ LET current_user == get_current_user(reqs[w].val, users, now)
       IN  reqs' = [reqs EXCEPT ![w] =
               IF fault
               THEN Work("finally", @.request, @.db, <<>>,
                         ErrorResponse("inv", @.request, InternalServerError, NotRun))
               ELSE IF current_user.ok
               THEN Work("read_inv", @.request, @.db, current_user, NoResp)
               ELSE Work("finally", @.request, @.db, <<>>,
                         ErrorResponse("inv", @.request, current_user.val, current_user))]
    /\ UNCHANGED <<users, inv, now, held, resp, open>>

\* the body of read_inv; its query may raise a store fault
ReadInv(w, fault) ==
    /\ reqs[w].pc = "read_inv"
    /\ reqs' = [reqs EXCEPT ![w] =
           Work("finally", @.request, @.db, <<>>,
                IF fault
                THEN ErrorResponse("inv", @.request, InternalServerError, @.val)
                ELSE Response("inv", @.request, 200, <<>>,
                              read_inv(inv, @.val.val), @.val))]
    /\ UNCHANGED <<users, inv, now, held, resp, open>>

\* the body of the /token handler; its query may raise a store fault
Login(w, fault) ==
    /\ reqs[w].pc = "login"
    /\ reqs' = [reqs EXCEPT ![w] =
           Work("finally", @.request, @.db, <<>>,
                IF fault
                THEN ErrorResponse("token", @.request, InternalServerError, NotRun)
                ELSE PostTokenResponse(@.request, users, now))]
    /\ UNCHANGED <<users, inv, now, held, resp, open>>

\* get_db without its finally
close_never(opened, db) == opened

\* the sessions open after db.close()
close(opened, db) == opened \ {db}

\* get_db after its yield, on every way out of the request: finally: db.close();
\* the response leaves
Finally(w) ==
    /\ reqs[w].pc = "finally"
    /\ open' = close(open, reqs[w].db)
    /\ resp' = reqs[w].out
    /\ reqs' = [reqs EXCEPT ![w] = Idle]
    /\ UNCHANGED <<users, inv, now, held>>

NextConc ==
    \/ \E w \in Workers, r \in ConcRequests : Accept(w, r)
    \/ \E w \in Workers : GetDb(w)
    \/ \E w \in Workers : Scheme(w)
    \/ \E w \in Workers, fault \in BOOLEAN : Gate(w, fault)
    \/ \E w \in Workers, fault \in BOOLEAN : ReadInv(w, fault)
    \/ \E w \in Workers, fault \in BOOLEAN : Login(w, fault)
    \/ \E w \in Workers : Finally(w)

SpecConc == InitConc /\ [][NextConc]_vars

\* ------------------------------------------------------- what a claim reads
IsInv == resp.kind = "inv"
IsToken == resp.kind = "token"

\* the request of resp carries Authorization: Bearer <something>
Presented ==
    /\ IsInv
    /\ "Authorization" \in DOMAIN resp.request.headers
    /\ resp.request.headers["Authorization"].scheme = "Bearer"

Tok == resp.request.headers["Authorization"].param

WellFormed(tok) == "header" \in DOMAIN tok

\* the signature is the server secret's, under the configured algorithm, over
\* the header and payload the token carries
GenuineSig(tok) ==
    /\ WellFormed(tok)
    /\ tok.header.alg = ALGORITHM
    /\ tok.sig.key = SECRET_KEY
    /\ tok.sig.alg = tok.header.alg
    /\ tok.sig.payload = tok.payload

Expired(tok) == "exp" \in DOMAIN tok.payload /\ now > tok.payload.exp

HasSub(tok) == "sub" \in DOMAIN tok.payload

SubStored(tok) == HasSub(tok) /\ \E r \in users : r.username = tok.payload.sub

Acceptable(tok) == GenuineSig(tok) /\ ~Expired(tok) /\ SubStored(tok)

Is401Challenge ==
    /\ resp.status = 401
    /\ resp.headers = Challenge
    /\ DOMAIN resp.body = {"detail"}

\* the token the client holds came from POST /token
HeldIssued == WellFormed(held)

\* ------------------------------------------------------------------ claims

\* C1: GET /inv returns the inventory rows with 200 only if the auth gate
\* returned a stored user for the presented bearer token; a missing,
\* malformed, expired or otherwise invalid token ends in 401 with
\* WWW-Authenticate: Bearer and no inventory row.
C1_GatedRead ==
    IsInv =>
        /\ resp.status = 200 =>
               Presented /\ resp.gate.ok /\ resp.gate.val \in users
        /\ ~(Presented /\ Acceptable(Tok)) => Is401Challenge

C1_Witness ==
    /\ Presented /\ GenuineSig(Tok) /\ SubStored(Tok) /\ Expired(Tok)
    /\ inv # {}
    /\ Is401Challenge

\* C2: a token obtained from POST /token with U's credentials, presented
\* before its expiry while U is stored, is accepted and resolves to the
\* stored user named by its subject, and GET /inv answers 200; the token's
\* subject is the username it was issued for.
C2_RoundTrip ==
    /\ (IsToken /\ resp.status = 200) =>
           /\ resp.body.access_token.payload.sub = resp.request.form.username
           /\ GenuineSig(resp.body.access_token)
           /\ ~Expired(resp.body.access_token)
    /\ (/\ Presented /\ HeldIssued /\ Tok = held
        /\ now < held.payload.exp
        /\ SubStored(held)) =>
           /\ resp.status = 200
           /\ resp.gate.ok
           /\ resp.gate.val \in users
           /\ resp.gate.val.username = held.payload.sub

C2_Witness ==
    /\ Presented /\ HeldIssued /\ Tok = held
    /\ now < held.payload.exp
    /\ Cardinality(users) = 2
    /\ resp.status = 200
    /\ resp.gate.val.username = "bob"

\* C3: POST /token answers 200 with {access_token, token_type: "bearer"}
\* exactly when the username is stored and the password verifies against
\* that user's hash; otherwise 401 and no token.
CredentialsMatch(form) ==
    \E r \in users :
        /\ r.username = form.username
        /\ r.hashed_password = get_password_hash(form.password, r.hashed_password.salt)

C3_TokenIff ==
    IsToken =>
        /\ resp.status \in {200, 401}
        /\ resp.status = 200 <=> CredentialsMatch(resp.request.form)
        /\ resp.status = 200 =>
               /\ DOMAIN resp.body = {"access_token", "token_type"}
               /\ resp.body.token_type = "bearer"
        /\ resp.status = 401 => DOMAIN resp.body = {"detail"}

C3_Witness ==
    /\ IsToken /\ resp.status = 401
    /\ \E r \in users : r.username = resp.request.form.username

\* C4: a verification after the token's expiry fails with 401, even though
\* the signature is correct and the subject is stored.
C4_Expiry ==
    (Presented /\ WellFormed(Tok) /\ Expired(Tok)) => Is401Challenge

C4_Witness ==
    /\ Presented /\ HeldIssued /\ Tok = held
    /\ GenuineSig(Tok) /\ SubStored(Tok) /\ Expired(Tok)
    /\ Is401Challenge

\* C5: the gate accepts a token only if its signature was produced with
\* SECRET_KEY under ALGORITHM; a tampered or foreign signature is rejected
\* with 401 whatever its subject and expiry.
C5_Unforgeable ==
    /\ (IsInv /\ resp.status = 200) => GenuineSig(Tok)
    /\ (Presented /\ ~GenuineSig(Tok)) => Is401Challenge

C5_Witness ==
    /\ Presented /\ WellFormed(Tok) /\ ~GenuineSig(Tok)
    /\ Tok.header.alg = ALGORITHM
    /\ SubStored(Tok) /\ ~Expired(Tok)
    /\ inv # {}
    /\ Is401Challenge

\* C6: a validly issued, unexpired token is rejected with 401 and the bearer
\* challenge once its subject is no longer stored; acceptance implies the
\* subject is stored at verification time.
C6_Revocation ==
    /\ (Presented /\ WellFormed(Tok) /\ ~SubStored(Tok)) => Is401Challenge
    /\ (IsInv /\ resp.status = 200) => SubStored(Tok)

C6_Witness ==
    /\ Presented /\ HeldIssued /\ Tok = held
    /\ GenuineSig(Tok) /\ ~Expired(Tok) /\ ~SubStored(Tok)
    /\ Is401Challenge

C8_AllRows ==
    (IsInv /\ resp.status = 200) =>
        resp.body =
            {[id |-> r.id, item_name |-> r.item_name, quantity |-> r.quantity] :
                r \in inv}

C8_Witness ==
    /\ IsInv /\ resp.status = 200
    /\ Cardinality(resp.body) = 2
    /\ resp.gate.val.username = "bob"

\* C10: a request, whether it succeeds or fails, changes neither the stored
\* users nor the stored inventory and leaves no session behind; the gate's
\* verdict is decided by the token, the time and the stored users.
IsRequestStep == resp = NoResp /\ resp' # NoResp

C10_ReadOnly ==
    [][IsRequestStep =>
          /\ users' = users
          /\ inv' = inv
          /\ open' = open
          /\ reqs' = reqs
          /\ resp'.kind = "inv" =>
                 (resp'.status = 200 <=>
                     /\ "Authorization" \in DOMAIN resp'.request.headers
                     /\ resp'.request.headers["Authorization"].scheme = "Bearer"
                     /\ Acceptable(resp'.request.headers["Authorization"].param))]_vars

C10_Witness ==
    /\ IsInv /\ resp.status = 200
    /\ inv # {}

\* C9: every request in flight past get_db holds a store session of its own,
\* open and shared with no other request in flight; a request that has ended
\* (by a normal return, a 401 of the gate or a store fault) holds none, and
\* no session is open that no request in flight holds.
Holding == {w \in Workers : reqs[w].pc \notin {"idle", "get_db"}}

C9_ScopedSession ==
    /\ \A w \in Holding : reqs[w].db \in open
    /\ \A w \in Workers \ Holding : reqs[w].db = None
    /\ \A w1, w2 \in Holding : w1 # w2 => reqs[w1].db # reqs[w2].db
    /\ open = {reqs[w].db : w \in Holding}
    /\ (\A w \in Workers : reqs[w].pc = "idle") => open = {}

C9_Witness ==
    /\ reqs["w1"].pc = "idle" /\ open = {reqs["w2"].db}
    /\ resp.status = 500
    /\ reqs["w2"].pc = "finally" /\ reqs["w2"].out.status = 401

====
